---- MODULE Spec2Model ----
(***************************************************************************)
(* State-machine model of authopenid/openid_consumer.py: the PickleSession *)
(* holder, the openid_store context manager, OpenIDConsumer.begin and      *)
(* OpenIDConsumer.complete, and the schema upgrade participant.            *)
(***************************************************************************)
EXTENDS FiniteSets, Integers, Naturals, Sequences, TLC

(***************************************************************************)
(* Bounds of the model.                                                    *)
(***************************************************************************)
MaxVal == 2
MaxWrap == 2
MaxVersion == 2
MaxSetupCalls == 3

Reqs == {"r1", "r2"}
Keys == {1, 2}
Vals == 1..MaxVal

Admin == "env"              \* the thread running the environment setup
Actors == Reqs \cup {Admin}
Nonces == {"n1", "n2"}
Handles == {"h1"}

VARIABLES
    session,    \* req.session[skey] of each request's user: the stored slot
    holder,     \* whether a PickleSession object exists for the request
    bag,        \* contents of the request's PickleSession (a dict)
    sres,       \* last PickleSession operation and the exception it raised
    dialect,    \* get_db_scheme(env)
    database,   \* committed contents: system row, oid tables and their rows
    oidutil_log,    \* the module global openid.oidutil.log
    pc,         \* position of each thread in its current call
    call,       \* arguments, locals and outcome of the current or last call
    tm,         \* the TransactionContextManager of the call's openid_store
    conn,       \* the connection handle the call works on
    store,      \* the store yielded by openid_store
    save_log,   \* the local save_log of openid_logging_to
    acceptCount,    \* per nonce, how many times useNonce has returned True
    nsetup      \* number of calls the environment setup has made

svars == <<session, holder, bag, sres>>
cvars == <<dialect>>
fvars == <<database, oidutil_log, pc, call, tm, conn, store, save_log,
           acceptCount, nsetup>>
vars == <<session, holder, bag, sres, dialect,
          database, oidutil_log, pc, call, tm, conn, store, save_log,
          acceptCount, nsetup>>

(***************************************************************************)
(* Python dicts with small integer keys and values.                        *)
(***************************************************************************)
EmptyDict == [k \in {} |-> 0]

Dicts == UNION {[D -> Vals] : D \in SUBSET Keys}

DictSet(d, k, v) == [x \in (DOMAIN d) \cup {k} |-> IF x = k THEN v ELSE d[x]]

DictDel(d, k) == [x \in (DOMAIN d) \ {k} |-> d[x]]

DictUpdate(d, e) == [x \in (DOMAIN d) \cup (DOMAIN e) |->
                        IF x \in DOMAIN e THEN e[x] ELSE d[x]]

MinOf(S) == CHOOSE x \in S : \A y \in S : x <= y

RECURSIVE SortedSeq(_)
SortedSeq(S) == IF S = {} THEN <<>>
                ELSE <<MinOf(S)>> \o SortedSeq(S \ {MinOf(S)})

(***************************************************************************)
(* pickle.dumps(obj, HIGHEST_PROTOCOL) and pickle.loads, on byte           *)
(* sequences.  Opcodes of pickle protocol 2.                               *)
(***************************************************************************)
OP_PROTO == 128
OP_EMPTY_DICT == 125
OP_BINPUT == 113
OP_BININT1 == 75
OP_MARK == 40
OP_SETITEM == 115
OP_SETITEMS == 117
OP_STOP == 46
HIGHEST_PROTOCOL == 2

RECURSIVE PickleItems(_, _)
PickleItems(d, ks) ==
    IF ks = <<>> THEN <<>>
    ELSE <<OP_BININT1, Head(ks), OP_BININT1, d[Head(ks)]>>
             \o PickleItems(d, Tail(ks))

pickle_dumps(d) ==
    LET ks == SortedSeq(DOMAIN d)
        n  == Len(ks)
    IN  <<OP_PROTO, HIGHEST_PROTOCOL, OP_EMPTY_DICT, OP_BINPUT, 0>>
          \o (IF n = 0 THEN <<>>
              ELSE IF n = 1 THEN PickleItems(d, ks) \o <<OP_SETITEM>>
              ELSE <<OP_MARK>> \o PickleItems(d, ks) \o <<OP_SETITEMS>>)
          \o <<OP_STOP>>

\* pickle.dumps of a small integer (an object that is not a dict)
pickle_dumps_int(i) == <<OP_PROTO, HIGHEST_PROTOCOL, OP_BININT1, i, OP_STOP>>

IntItem(i) == [t |-> "int", i |-> i, d |-> EmptyDict]
DictItem(d) == [t |-> "dict", i |-> 0, d |-> d]
MarkItem == [t |-> "mark", i |-> 0, d |-> EmptyDict]

Raise(e) == [exc |-> e, val |-> MarkItem]
Return(v) == [exc |-> "none", val |-> v]

\* index of the topmost mark on the unpickler stack, 0 if there is none
RECURSIVE TopMark(_, _)
TopMark(stack, i) ==
    IF i = 0 THEN 0
    ELSE IF stack[i].t = "mark" THEN i
    ELSE TopMark(stack, i - 1)

\* d[k] = v for the (k, v) pairs in items[i..], as SETITEMS does
RECURSIVE SetPairs(_, _, _)
SetPairs(d, items, i) ==
    IF i + 1 > Len(items) THEN Return(DictItem(d))
    ELSE IF items[i].t # "int" \/ items[i + 1].t # "int"
         THEN Raise("TypeError")
    ELSE SetPairs(DictSet(d, items[i].i, items[i + 1].i), items, i + 2)

\* the unpickler's opcode loop: data, read position, stack
RECURSIVE Unpickle(_, _, _)
Unpickle(data, pos, stack) ==
    IF pos > Len(data) THEN Raise("EOFError")
    ELSE LET op == data[pos]
             n  == Len(stack)
         IN
         IF op \in {OP_PROTO, OP_BINPUT, OP_BININT1} /\ pos + 1 > Len(data)
            THEN Raise("EOFError")
         ELSE IF op = OP_PROTO THEN
            IF data[pos + 1] > HIGHEST_PROTOCOL THEN Raise("ValueError")
            ELSE Unpickle(data, pos + 2, stack)
         ELSE IF op = OP_EMPTY_DICT THEN
            Unpickle(data, pos + 1, Append(stack, DictItem(EmptyDict)))
         ELSE IF op = OP_BINPUT THEN
            IF n = 0 THEN Raise("UnpicklingError")
            ELSE Unpickle(data, pos + 2, stack)
         ELSE IF op = OP_BININT1 THEN
            Unpickle(data, pos + 2, Append(stack, IntItem(data[pos + 1])))
         ELSE IF op = OP_MARK THEN
            Unpickle(data, pos + 1, Append(stack, MarkItem))
         ELSE IF op = OP_SETITEM THEN
            IF n < 3 THEN Raise("UnpicklingError")
            ELSE IF stack[n - 2].t # "dict" \/ stack[n - 1].t # "int"
                    \/ stack[n].t # "int" THEN Raise("TypeError")
            ELSE Unpickle(data, pos + 1,
                    Append(SubSeq(stack, 1, n - 3),
                           DictItem(DictSet(stack[n - 2].d,
                                            stack[n - 1].i, stack[n].i))))
         ELSE IF op = OP_SETITEMS THEN
            LET m == TopMark(stack, n) IN
            IF m < 2 \/ (n - m) % 2 # 0 THEN Raise("UnpicklingError")
            ELSE IF stack[m - 1].t # "dict" THEN Raise("TypeError")
            ELSE LET r == SetPairs(stack[m - 1].d, stack, m + 1) IN
                 IF r.exc # "none" THEN r
                 ELSE Unpickle(data, pos + 1,
                               Append(SubSeq(stack, 1, m - 2), r.val))
         ELSE IF op = OP_STOP THEN
            IF n = 0 THEN Raise("UnpicklingError")
            ELSE Return(stack[n])
         ELSE Raise("UnpicklingError")

pickle_loads(data) == Unpickle(data, 1, <<>>)

(***************************************************************************)
(* base64: bytes <-> text of sextets 0..63, 64 is the pad character '='.   *)
(***************************************************************************)
PAD == 64

RECURSIVE b64encode(_)
b64encode(b) ==
    IF Len(b) = 0 THEN <<>>
    ELSE IF Len(b) = 1 THEN
        <<b[1] \div 4, (b[1] % 4) * 16, PAD, PAD>>
    ELSE IF Len(b) = 2 THEN
        <<b[1] \div 4, ((b[1] % 4) * 16) + (b[2] \div 16), (b[2] % 16) * 4, PAD>>
    ELSE <<b[1] \div 4, ((b[1] % 4) * 16) + (b[2] \div 16),
           ((b[2] % 16) * 4) + (b[3] \div 64), b[3] % 64>>
           \o b64encode(SubSeq(b, 4, Len(b)))

\* binascii.a2b_base64 rejects text whose sextets leave bits over
\* ("Incorrect padding"); base64.b64decode turns that into TypeError
B64Padded(s) ==
    /\ Len(s) % 4 = 0
    /\ \A i \in 1..Len(s) : s[i] = PAD => i >= Len(s) - 1
    /\ (Len(s) > 0 /\ s[Len(s) - 1] = PAD) => s[Len(s)] = PAD

RECURSIVE B64Bytes(_)
B64Bytes(s) ==
    IF Len(s) = 0 THEN <<>>
    ELSE LET q == SubSeq(s, 1, 4)
             b1 == (q[1] * 4) + (q[2] \div 16)
             b2 == ((q[2] % 16) * 16) + ((q[3] % 64) \div 4)
             b3 == ((q[3] % 4) * 64) + (q[4] % 64)
         IN  (IF q[3] = PAD THEN <<b1>>
              ELSE IF q[4] = PAD THEN <<b1, b2>>
              ELSE <<b1, b2, b3>>) \o B64Bytes(SubSeq(s, 5, Len(s)))

(***************************************************************************)
(* The session slot req.session[skey]: absent, a text, or a value of       *)
(* another type.                                                           *)
(***************************************************************************)
Absent == [type |-> "absent", data |-> <<>>]
Text(s) == [type |-> "str", data |-> s]
NonText == [type |-> "other", data |-> <<>>]

\* b64decode(req.session[self.skey])
b64decode(slot) ==
    IF slot.type = "absent" THEN [exc |-> "KeyError", data |-> <<>>]
    ELSE IF slot.type # "str" THEN [exc |-> "TypeError", data |-> <<>>]
    ELSE IF ~B64Padded(slot.data) THEN [exc |-> "TypeError", data |-> <<>>]
    ELSE [exc |-> "none", data |-> B64Bytes(slot.data)]

\* save without the elif branch: an emptied bag leaves the old slot behind
save_keeps_stale(slot, d) ==
    IF Cardinality(DOMAIN d) > 0 THEN Text(b64encode(pickle_dumps(d)))
    ELSE slot

\* PickleSession.save
save(slot, d) ==
    IF Cardinality(DOMAIN d) > 0 THEN Text(b64encode(pickle_dumps(d)))
    ELSE Absent

\* _session_mutator.wrapped: res is the outcome of the dict method; save
\* runs only when the method returned
session_mutator(slot, res) ==
    IF res.exc # "none" THEN [exc |-> res.exc, bag |-> res.bag, slot |-> slot]
    ELSE [exc |-> "none", bag |-> res.bag, slot |-> save(slot, res.bag)]

DictOk(d) == [exc |-> "none", bag |-> d]
DictErr(d, e) == [exc |-> e, bag |-> d]

\* the dict methods PickleSession wraps
dict_setitem(d, k, v) == DictOk(DictSet(d, k, v))
dict_delitem(d, k) ==
    IF k \in DOMAIN d THEN DictOk(DictDel(d, k)) ELSE DictErr(d, "KeyError")
dict_clear(d) == DictOk(EmptyDict)
dict_pop(d, k, hasDefault) ==
    IF k \in DOMAIN d THEN DictOk(DictDel(d, k))
    ELSE IF hasDefault THEN DictOk(d)
    ELSE DictErr(d, "KeyError")
dict_popitem(d, k) ==
    IF DOMAIN d = {} THEN DictErr(d, "KeyError") ELSE DictOk(DictDel(d, k))
dict_setdefault(d, k, v) ==
    IF k \in DOMAIN d THEN DictOk(d) ELSE DictOk(DictSet(d, k, v))
\* dict.update(self, obj): obj must be a mapping or an iterable of pairs
dict_update(d, item) ==
    IF item.t = "dict" THEN DictOk(DictUpdate(d, item.d))
    ELSE DictErr(d, "TypeError")

\* the try block of PickleSession.__init__: decode, unpickle, update (which
\* saves); result is the exception in flight, the bag and the slot
TryLoad(slot) ==
    LET dec == b64decode(slot) IN
    IF dec.exc # "none"
       THEN [exc |-> dec.exc, bag |-> EmptyDict, slot |-> slot]
    ELSE LET obj == pickle_loads(dec.data) IN
         IF obj.exc # "none"
            THEN [exc |-> obj.exc, bag |-> EmptyDict, slot |-> slot]
         ELSE session_mutator(slot, dict_update(EmptyDict, obj.val))

\* exceptions PickleSession.__init__ catches
Caught == {"KeyError", "TypeError", "UnpicklingError"}

\* PickleSession.__init__: the exception that leaves the constructor
\* ("none" when construction completes), the bag and the slot
PickleSession(slot) ==
    LET t == TryLoad(slot) IN
    IF t.exc \in Caught THEN [t EXCEPT !.exc = "none"] ELSE t

SOp(op, exc) == [op |-> op, exc |-> exc]

(***************************************************************************)
(* Operations on one PickleSession.                                        *)
(***************************************************************************)
\* session = PickleSession(req, skey)
SessLoad(r) ==
    LET c == PickleSession(session[r]) IN
    /\ session' = [session EXCEPT ![r] = c.slot]
    /\ bag' = [bag EXCEPT ![r] = c.bag]
    /\ holder' = [holder EXCEPT ![r] = (c.exc = "none")]
    /\ sres' = [sres EXCEPT ![r] = SOp("init", c.exc)]

\* a wrapped method call on the holder, res the dict method's outcome
SessApply(r, op, res) ==
    LET m == session_mutator(session[r], res) IN
    /\ holder[r]
    /\ session' = [session EXCEPT ![r] = m.slot]
    /\ bag' = [bag EXCEPT ![r] = m.bag]
    /\ sres' = [sres EXCEPT ![r] = SOp(op, m.exc)]
    /\ UNCHANGED holder

SessSetItem(r) ==
    \E k \in Keys, v \in Vals :
        SessApply(r, "setitem", dict_setitem(bag[r], k, v))

SessDelItem(r) ==
    \E k \in Keys : SessApply(r, "delitem", dict_delitem(bag[r], k))

SessClear(r) == SessApply(r, "clear", dict_clear(bag[r]))

SessPop(r) ==
    \E k \in Keys, hasDefault \in BOOLEAN :
        SessApply(r, "pop", dict_pop(bag[r], k, hasDefault))

SessPopItem(r) ==
    \E k \in IF DOMAIN bag[r] = {} THEN Keys ELSE DOMAIN bag[r] :
        SessApply(r, "popitem", dict_popitem(bag[r], k))

SessSetDefault(r) ==
    \E k \in Keys, v \in Vals :
        SessApply(r, "setdefault", dict_setdefault(bag[r], k, v))

SessUpdate(r) ==
    \E e \in Dicts : SessApply(r, "update", dict_update(bag[r], DictItem(e)))

(***************************************************************************)
(* The database: the system table row authopenid.openid_store_version, the *)
(* oid_associations/oid_nonces tables and their rows.  A connection holds  *)
(* the uncommitted write of the system row, if any.                        *)
(***************************************************************************)
NoVersion == 0 - 1          \* no row: _get_schema_version returns None

PoolWrap == MaxWrap          \* wrapper layers of a db_transaction connection

NoConn == [wrap |-> 0, dirty |-> FALSE, version |-> NoVersion, ends |-> 0]

\* a connection handle wrapped in `w` ConnectionWrapper layers
NewConn(w) == [wrap |-> w, dirty |-> FALSE, version |-> NoVersion, ends |-> 0]

\* the system row as seen through the connection
ViewVersion(c, db) == IF c.dirty THEN c.version ELSE db.version

\* db("INSERT/UPDATE system ..."): an uncommitted write on the connection
ConnWrite(c, v) == [c EXCEPT !.dirty = TRUE, !.version = v]

\* connection.commit(), connection.rollback()
ConnCommit(c, db) ==
    [conn |-> [c EXCEPT !.dirty = FALSE, !.ends = @ + 1],
     db   |-> [db EXCEPT !.version = ViewVersion(c, db)]]
ConnRollback(c, db) ==
    [conn |-> [c EXCEPT !.dirty = FALSE, !.ends = @ + 1], db |-> db]

(***************************************************************************)
(* TransactionContextManager (authopenid.compat).                          *)
(***************************************************************************)
NoTm == [state |-> "none", exits |-> 0]

\* tm.__enter__(): opens a transaction
tm_enter(t) == [t EXCEPT !.state = "open"]

\* tm.__exit__(type, value, tb): commit when no exception is in flight,
\* else roll back
tm_exit(t, c, db, exc) ==
    LET e == IF exc = "none" THEN ConnCommit(c, db) ELSE ConnRollback(c, db)
    IN  [tm   |-> [state |-> IF exc = "none" THEN "committed"
                             ELSE "rolledback",
                   exits |-> t.exits + 1],
         conn |-> e.conn, db |-> e.db]

(***************************************************************************)
(* The python-openid stores.  Every SQLStore method runs in its own        *)
(* transaction on the raw connection: rollback, statement, commit.         *)
(***************************************************************************)
NoStore == [kind |-> "none", wrap |-> 0, nonces |-> {}, assocs |-> {}]
MemoryStore == [kind |-> "mem", wrap |-> 0, nonces |-> {}, assocs |-> {}]
SQLStore(c) == [kind |-> "sql", wrap |-> c.wrap, nonces |-> {}, assocs |-> {}]

STORE_CLASSES == {"sqlite", "mysql", "postgres"}
Dialects == STORE_CLASSES \cup {"other"}

\* openid_store.__init__: self.store_class = STORE_CLASSES.get(scheme)
store_class(scheme) == IF scheme \in STORE_CLASSES THEN "sql" ELSE "none"

hasattr_createTables(st) == st.kind = "sql"

\* result of a store method: return value, store object, connection, database
StoreRes(rv, st, c, db) == [rv |-> rv, store |-> st, conn |-> c, db |-> db]

InTxn(c) == [c EXCEPT !.dirty = FALSE, !.ends = @ + 2]

\* store.useNonce(server_url, timestamp, salt): check-and-set; the SQL
\* stores INSERT under the table's uniqueness constraint
useNonce(st, c, db, n) ==
    IF st.kind = "sql"
       THEN StoreRes(n \notin db.nonces, st, InTxn(c),
                     [db EXCEPT !.nonces = @ \cup {n}])
    ELSE StoreRes(n \notin st.nonces,
                  [st EXCEPT !.nonces = @ \cup {n}], c, db)

\* store.storeAssociation(server_url, association)
storeAssociation(st, c, db, h) ==
    IF st.kind = "sql"
       THEN StoreRes(TRUE, st, InTxn(c), [db EXCEPT !.assocs = @ \cup {h}])
    ELSE StoreRes(TRUE, [st EXCEPT !.assocs = @ \cup {h}], c, db)

\* store.getAssociation(server_url, handle)
getAssociation(st, c, db, h) ==
    IF st.kind = "sql" THEN StoreRes(h \in db.assocs, st, InTxn(c), db)
    ELSE StoreRes(h \in st.assocs, st, c, db)

\* store.createTables(): CREATE TABLE fails when the table exists
createTables(st, c, db) ==
    IF db.tables THEN StoreRes("OperationalError", st, InTxn(c), db)
    ELSE StoreRes("none", st, InTxn(c), [db EXCEPT !.tables = TRUE])

(***************************************************************************)
(* openid_store                                                            *)
(***************************************************************************)
\* while isinstance(conn, ConnectionWrapper): conn = conn.cnx
RECURSIVE Unwrap(_)
Unwrap(c) == IF c.wrap > 0 THEN Unwrap([c EXCEPT !.wrap = @ - 1]) ELSE c

\* an except clause that re-raises without calling self._exit
EnterFailed_leaks(t, c, db, exc) == [tm |-> t, conn |-> c, db |-> db]

\* the except clause of __enter__: self._exit(*sys.exc_info()); raise
EnterFailed(t, c, db, exc) ==
    IF t.state = "none" THEN [tm |-> t, conn |-> c, db |-> db]
    ELSE tm_exit(t, c, db, exc)

\* openid_store.__enter__.  hasDb: a connection was passed to __init__ (it
\* is c); w: wrapper layers of the connection a new transaction yields;
\* ctorExc: the exception the store constructor raises, "none" if none
openid_store_enter(scheme, hasDb, c, db, w, ctorExc) ==
    IF store_class(scheme) = "none"
       THEN [exc |-> "none", store |-> MemoryStore, tm |-> NoTm,
             conn |-> c, db |-> db]
    ELSE LET t  == IF hasDb THEN NoTm ELSE tm_enter(NoTm)
             cn == IF hasDb THEN c ELSE NewConn(w)
         IN  IF ctorExc # "none"
                THEN LET f == EnterFailed(t, cn, db, ctorExc) IN
                     [exc |-> ctorExc, store |-> NoStore, tm |-> f.tm,
                      conn |-> f.conn, db |-> f.db]
             ELSE [exc |-> "none", store |-> SQLStore(Unwrap(cn)),
                   tm |-> t, conn |-> cn, db |-> db]

\* an __exit__ that hides the exception from the transaction manager
openid_store_exit_commits(t, c, db, exc) ==
    IF t.state = "none" THEN [tm |-> t, conn |-> c, db |-> db]
    ELSE tm_exit(t, c, db, "none")

\* an __exit__ that ends the transaction of a connection it was handed
openid_store_exit_managed(t, c, db, exc) == tm_exit(t, c, db, exc)

\* openid_store.__exit__: self._exit(type_, value, tb)
openid_store_exit(t, c, db, exc) ==
    IF t.state = "none" THEN [tm |-> t, conn |-> c, db |-> db]
    ELSE tm_exit(t, c, db, exc)

(***************************************************************************)
(* URLs are texts (sequences of characters); urlparse and urlunparse.      *)
(***************************************************************************)
\* index of the first position >= i where c occurs in u, Len(u)+1 if none
RECURSIVE Find(_, _, _)
Find(u, c, i) ==
    IF i > Len(u) THEN Len(u) + 1
    ELSE IF u[i] = c THEN i
    ELSE Find(u, c, i + 1)

\* urlparse(url): scheme up to ':', netloc between '//' and the next '/',
\* the rest is the path (the URLs here carry no params, query or fragment)
urlparse(u) ==
    LET colon == Find(u, ":", 1)
        hasNet == colon + 2 <= Len(u) /\ u[colon + 1] = "/"
                     /\ u[colon + 2] = "/"
        slash == IF hasNet THEN Find(u, "/", colon + 3) ELSE colon + 1
    IN  IF colon > Len(u)
           THEN [scheme |-> <<>>, netloc |-> <<>>, path |-> u]
        ELSE [scheme |-> SubSeq(u, 1, colon - 1),
              netloc |-> IF hasNet THEN SubSeq(u, colon + 3, slash - 1)
                         ELSE <<>>,
              path   |-> SubSeq(u, slash, Len(u))]

\* urlunparse((scheme, netloc, path, None, None, None))
urlunparse(scheme, netloc, path) ==
    (IF scheme # <<>> THEN scheme \o <<":">> ELSE <<>>)
      \o (IF netloc # <<>> THEN <<"/", "/">> \o netloc ELSE <<>>)
      \o path

endswith(p, c) == Len(p) > 0 /\ p[Len(p)] = c

NoURL == <<>>
BaseURLs == {<<"s", ":", "/", "/", "h">>,
             <<"s", ":", "/", "/", "h", "/", "p">>}
GivenRoot == <<"s", ":", "/", "/", "h", "/", "t", "/">>
ReturnTo == <<"s", ":", "/", "/", "h", "/", "p", "/", "r">>

\* a trust root that is always the project's, whatever the option says
get_trust_root_project(href, absolute) ==
    LET root == urlparse(href \o <<"/">>) IN
    [exc |-> "none", url |-> urlunparse(root.scheme, root.netloc, root.path)]

\* OpenIDConsumer._get_trust_root: result and assertion outcome
get_trust_root(href, absolute) ==
    LET root == urlparse(href \o <<"/">>)
        path0 == IF absolute THEN <<"/">> ELSE root.path
        path == IF ~endswith(path0, "/") THEN path0 \o <<"/">> ELSE path0
    IN  IF root.scheme = <<>> \/ root.netloc = <<>>
           THEN [exc |-> "AssertionError", url |-> NoURL]
        ELSE [exc |-> "none",
              url |-> urlunparse(root.scheme, root.netloc, path)]

(***************************************************************************)
(* Calls.                                                                  *)
(***************************************************************************)
SUCCESS == "success"
FAILURE == "failure"
CANCEL == "cancel"
SETUP_NEEDED == "setup_needed"

\* openid_extension_providers, in registration order
Providers == <<"sreg", "ax">>

TOKEN_KEY == 1              \* the engine's session key for the endpoint
DISCO_KEY == 2              \* the engine's session key for discovery
ENDPOINT == 1               \* the discovered endpoint, as a session value

NoArgs == [mode |-> "none", nonce |-> "none", handle |-> "none",
           verified |-> FALSE]
NoAuthRequest == [endpoint |-> 0, redirect |-> FALSE, handle |-> "none",
                  stored |-> FALSE, exts |-> <<>>]
NoResponse == [status |-> "none", message |-> "", identity_url |-> "",
               setup_url |-> "", canonicalID |-> "", nonce |-> "none"]
NoCall == [op |-> "none", abs_href |-> NoURL, absolute_trust_root |-> FALSE,
           trust_root_arg |-> NoURL, trust_root |-> NoURL,
           return_to |-> NoURL, immediate |-> FALSE, args |-> NoArgs,
           auth_request |-> NoAuthRequest, response |-> NoResponse,
           delivered |-> <<>>, provcalls |-> <<>>, exc |-> "none",
           payload |-> <<>>, result |-> "none", have |-> NoVersion,
           want |-> NoVersion, table_existed |-> FALSE, created |-> 0,
           raising |-> {}, follows_upgrade |-> FALSE]

\* a request that has not been handled yet: each makes one call
Idle(a) == pc[a] = "idle" /\ call[a].op = "none"

\* with openid_logging_to(log): save_log, oidutil.log = oidutil.log, hook
LoggingEnter(r) ==
    /\ save_log' = [save_log EXCEPT ![r] = oidutil_log]
    /\ oidutil_log' = r

\* session = PickleSession(...); with openid_store(self.env) as store:
\*   with openid_logging_to(log):
\* the common head of begin and complete, c the call record
EnterScopes(r, c, nextpc) ==
    LET ps == PickleSession(session[r]) IN
    /\ session' = [session EXCEPT ![r] = ps.slot]
    /\ bag' = [bag EXCEPT ![r] = ps.bag]
    /\ holder' = [holder EXCEPT ![r] = (ps.exc = "none")]
    /\ sres' = [sres EXCEPT ![r] = SOp("init", ps.exc)]
    /\ IF ps.exc # "none"
          THEN /\ call' = [call EXCEPT ![r] = [c EXCEPT !.exc = ps.exc]]
               /\ tm' = [tm EXCEPT ![r] = NoTm]
               /\ conn' = [conn EXCEPT ![r] = NoConn]
               /\ store' = [store EXCEPT ![r] = NoStore]
               /\ UNCHANGED <<pc, database, oidutil_log, save_log>>
       ELSE \E ctorExc \in {"none", "StoreError"} :
            LET e == openid_store_enter(dialect, FALSE, NoConn, database,
                                        PoolWrap, ctorExc)
            IN  /\ tm' = [tm EXCEPT ![r] = e.tm]
                /\ conn' = [conn EXCEPT ![r] = e.conn]
                /\ store' = [store EXCEPT ![r] = e.store]
                /\ database' = e.db
                /\ call' = [call EXCEPT ![r] = [c EXCEPT !.exc = e.exc]]
                /\ IF e.exc # "none"
                      THEN UNCHANGED <<pc, oidutil_log, save_log>>
                   ELSE /\ pc' = [pc EXCEPT ![r] = nextpc]
                        /\ LoggingEnter(r)

\* OpenIDConsumer.begin, up to the engine call.  The request carries its
\* base URL; the absolute_trust_root option is read when the trust root is
\* not given
BeginStart(r) ==
    /\ Idle(r)
    /\ \E given \in {NoURL, GivenRoot}, href \in BaseURLs,
          absolute \in BOOLEAN :
        /\ given # NoURL =>
              (href = CHOOSE x \in BaseURLs : TRUE) /\ absolute
        /\ LET tr == IF given = NoURL THEN get_trust_root(href, absolute)
                     ELSE [exc |-> "none", url |-> given]
               c  == [NoCall EXCEPT !.op = "begin", !.abs_href = href,
                                    !.absolute_trust_root = absolute,
                                    !.trust_root_arg = given,
                                    !.trust_root = tr.url,
                                    !.return_to = ReturnTo]
           IN  IF tr.exc # "none"
               THEN /\ call' = [call EXCEPT ![r] = [c EXCEPT !.exc = tr.exc]]
                    /\ UNCHANGED <<svars, database, oidutil_log, pc, tm,
                                   conn, store, save_log>>
            ELSE EnterScopes(r, c, "b_engine")
    /\ UNCHANGED <<cvars, acceptCount, nsetup>>

\* the engine's writes to its session object, m the outcome of the
\* PickleSession method it called last
SessionWrite(r, op, m) ==
    /\ session' = [session EXCEPT ![r] = m.slot]
    /\ bag' = [bag EXCEPT ![r] = m.bag]
    /\ sres' = [sres EXCEPT ![r] = SOp(op, m.exc)]
    /\ UNCHANGED holder

\* session[k] = v on a PickleSession in state m
SetItem(m, k, v) == session_mutator(m.slot, dict_setitem(m.bag, k, v))

\* try: del session[k] / except KeyError: pass
DelItem(m, k) ==
    [session_mutator(m.slot, dict_delitem(m.bag, k)) EXCEPT !.exc = "none"]

Holder(r) == [exc |-> "none", bag |-> bag[r], slot |-> session[r]]

\* consumer.begin(identifier): discovery (its manager is kept in the
\* session), then association through the store (reuse the stored one or
\* negotiate and store a new one, or none: stateless mode), then the
\* endpoint goes into the session
BeginEngine(r) ==
    /\ pc[r] = "b_engine"
    /\ \/ /\ call' = [call EXCEPT ![r].exc = "DiscoveryFailure"]
          /\ pc' = [pc EXCEPT ![r] = "logexit"]
          /\ UNCHANGED <<svars, database, conn, store>>
       \/ \E v \in {ENDPOINT}, h \in Handles \cup {"none"},
             redirect \in BOOLEAN :
            LET g == getAssociation(store[r], conn[r], database, h)
                a == IF h = "none" \/ g.rv THEN g
                     ELSE storeAssociation(g.store, g.conn, g.db, h)
                x == IF h = "none"
                        THEN StoreRes(FALSE, store[r], conn[r], database)
                     ELSE a
            IN  /\ store' = [store EXCEPT ![r] = x.store]
                /\ conn' = [conn EXCEPT ![r] = x.conn]
                /\ database' = x.db
                /\ SessionWrite(r, "setitem",
                      SetItem(SetItem(Holder(r), DISCO_KEY, v),
                              TOKEN_KEY, v))
                /\ call' = [call EXCEPT ![r].auth_request =
                              [endpoint |-> v, redirect |-> redirect,
                               handle |-> h,
                               stored |-> (h # "none" /\ ~g.rv),
                               exts |-> <<>>]]
                /\ pc' = [pc EXCEPT ![r] = "b_deliver"]
    /\ UNCHANGED <<cvars, oidutil_log, tm, save_log, acceptCount, nsetup>>

\* for provider in self.openid_extension_providers:
\*     provider.add_to_auth_request(req, auth_request)
RECURSIVE add_to_auth_request(_, _)
add_to_auth_request(ar, provs) ==
    IF provs = <<>> THEN ar
    ELSE add_to_auth_request([ar EXCEPT !.exts = Append(@, Head(provs))],
                             Tail(provs))

\* auth_request.redirectURL(trust_root, return_to, immediate=immediate)
redirectURL(ar, trust_root, return_to, immediate) ==
    [realm |-> trust_root, return_to |-> return_to, immediate |-> immediate,
     handle |-> ar.handle, exts |-> ar.exts]

\* auth_request.htmlMarkup(trust_root, return_to, immediate=immediate)
htmlMarkup(ar, trust_root, return_to, immediate) ==
    [realm |-> trust_root, return_to |-> return_to, immediate |-> immediate,
     handle |-> ar.handle, exts |-> ar.exts]

\* delivery where req.redirect returns: the form is sent as well
Deliver_falls_through(ar, trust_root, return_to, immediate) ==
    (IF ar.redirect
        THEN <<[kind |-> "redirect", content_type |-> "",
                body |-> redirectURL(ar, trust_root, return_to, immediate)]>>
     ELSE <<>>)
      \o <<[kind |-> "send", content_type |-> "text/html",
             body |-> htmlMarkup(ar, trust_root, return_to, immediate)]>>

\* the if/else at the end of begin: what the request object is asked to do.
\* req.redirect raises RequestDone, so nothing follows it
Deliver(ar, trust_root, return_to, immediate) ==
    IF ar.redirect
       THEN <<[kind |-> "redirect", content_type |-> "",
               body |-> redirectURL(ar, trust_root, return_to, immediate)]>>
    ELSE <<[kind |-> "send", content_type |-> "text/html",
            body |-> htmlMarkup(ar, trust_root, return_to, immediate)]>>

\* a begin that builds the redirect or the form first and runs the
\* providers afterwards
ExtendThenDeliver_late(ar0, trust_root, return_to, immediate) ==
    [auth_request |-> add_to_auth_request(ar0, Providers),
     delivered |-> Deliver(ar0, trust_root, return_to, immediate)]

\* the provider loop on the engine's auth request, then the delivery of
\* the request the providers have worked on
ExtendThenDeliver(ar0, trust_root, return_to, immediate) ==
    LET ar == add_to_auth_request(ar0, Providers) IN
    [auth_request |-> ar,
     delivered |-> Deliver(ar, trust_root, return_to, immediate)]

\* begin after the engine call: extension providers, then delivery
BeginDeliver(r) ==
    /\ pc[r] = "b_deliver"
    /\ \E imm \in BOOLEAN :
       LET x == ExtendThenDeliver(call[r].auth_request, call[r].trust_root,
                                  call[r].return_to, imm) IN
       call' = [call EXCEPT ![r].auth_request = x.auth_request,
                            ![r].provcalls = x.auth_request.exts,
                            ![r].immediate = imm,
                            ![r].delivered = x.delivered,
                            ![r].exc = "RequestDone"]
    /\ pc' = [pc EXCEPT ![r] = "logexit"]
    /\ UNCHANGED <<svars, cvars, database, oidutil_log, tm, conn, store,
                   save_log, acceptCount, nsetup>>

\* openid_logging_to, the finally clause: oidutil.log = save_log
LogExit(r) ==
    /\ pc[r] = "logexit"
    /\ oidutil_log' = save_log[r]
    /\ pc' = [pc EXCEPT ![r] = "storeexit"]
    /\ UNCHANGED <<svars, cvars, database, call, tm, conn, store, save_log,
                   acceptCount, nsetup>>

\* leaving `with openid_store(self.env) as store`; the call ends
StoreExit(r) ==
    /\ pc[r] = "storeexit"
    /\ LET x == openid_store_exit(tm[r], conn[r], database, call[r].exc) IN
        /\ tm' = [tm EXCEPT ![r] = x.tm]
        /\ conn' = [conn EXCEPT ![r] = x.conn]
        /\ database' = x.db
    /\ store' = [store EXCEPT ![r] = NoStore]
    /\ pc' = [pc EXCEPT ![r] = "idle"]
    /\ UNCHANGED <<svars, cvars, oidutil_log, call, save_log,
                   acceptCount, nsetup>>

Modes == {"cancel", "setup_needed", "error", "id_res"}

\* OpenIDConsumer.complete, up to the engine call.  req.args carries the
\* provider's answer: its mode and, for id_res, nonce and assoc handle
CompleteStart(r) ==
    /\ Idle(r)
    /\ \E mode \in Modes, n \in Nonces, h \in Handles, ok \in BOOLEAN :
        /\ mode # "id_res" =>
              (n = CHOOSE x \in Nonces : TRUE) /\ ~ok
                 /\ (h = CHOOSE x \in Handles : TRUE)
        /\ EnterScopes(r, [NoCall EXCEPT !.op = "complete",
                              !.args = [mode |-> mode, nonce |-> n,
                                        handle |-> h, verified |-> ok]],
                       "c_engine")
    /\ UNCHANGED <<cvars, acceptCount, nsetup>>

FailureResponse ==
    [NoResponse EXCEPT !.status = FAILURE, !.message = "msg",
                       !.identity_url = "id"]

\* what consumer.complete leaves in the session: the endpoint token is
\* dropped, and so is the discovery manager after a success or a cancel
EngineCleanup(r, status) ==
    LET m == DelItem(Holder(r), TOKEN_KEY) IN
    SessionWrite(r, "delitem",
                 IF status \in {SUCCESS, CANCEL} THEN DelItem(m, DISCO_KEY)
                 ELSE m)

\* consumer.complete(req.args, current_url): the four response kinds.  An
\* id_res answer is a success when its signature and fields verify and the
\* store accepts the nonce
CompleteEngine(r) ==
    /\ pc[r] = "c_engine"
    /\ LET args == call[r].args
           g == getAssociation(store[r], conn[r], database, args.handle)
           u == useNonce(g.store, g.conn, g.db, args.nonce)
       IN  IF args.mode = "id_res" /\ args.verified
              THEN /\ store' = [store EXCEPT ![r] = u.store]
                   /\ conn' = [conn EXCEPT ![r] = u.conn]
                   /\ database' = u.db
                   /\ IF u.rv
                         THEN /\ \E canon \in {"", "canon"} :
                                  call' = [call EXCEPT ![r].response =
                                     [NoResponse EXCEPT
                                        !.status = SUCCESS,
                                        !.identity_url = "id",
                                        !.canonicalID = canon,
                                        !.nonce = args.nonce]]
                              /\ acceptCount' =
                                   [acceptCount EXCEPT ![args.nonce] =
                                        IF @ < 2 THEN @ + 1 ELSE @]
                      ELSE /\ call' = [call EXCEPT ![r].response =
                                          FailureResponse]
                           /\ UNCHANGED acceptCount
           ELSE /\ IF args.mode = "id_res"
                      THEN /\ store' = [store EXCEPT ![r] = g.store]
                           /\ conn' = [conn EXCEPT ![r] = g.conn]
                           /\ database' = g.db
                   ELSE UNCHANGED <<store, conn, database>>
                /\ call' = [call EXCEPT ![r].response =
                      IF args.mode = "cancel"
                         THEN [NoResponse EXCEPT !.status = CANCEL]
                      ELSE IF args.mode = "setup_needed"
                         THEN [NoResponse EXCEPT !.status = SETUP_NEEDED,
                                                 !.setup_url = "setup"]
                      ELSE FailureResponse]
                /\ UNCHANGED acceptCount
    /\ EngineCleanup(r, call'[r].response.status)
    /\ pc' = [pc EXCEPT ![r] = "c_classify"]
    /\ UNCHANGED <<cvars, oidutil_log, tm, save_log, nsetup>>

\* session.clear() whatever the status
ClearSession_always(status, slot, d) == session_mutator(slot, dict_clear(d))

\* if response.status != SETUP_NEEDED: session.clear()
ClearSession(status, slot, d) ==
    IF status # SETUP_NEEDED THEN session_mutator(slot, dict_clear(d))
    ELSE [exc |-> "none", bag |-> d, slot |-> slot]

\* a classifier that reports a cancelled authentication as a failed one
Outcome_cancel_as_failure(resp) ==
    IF resp.status \in {FAILURE, CANCEL}
       THEN [exc |-> "AuthenticationFailed",
             payload |-> <<resp.message, resp.identity_url>>]
    ELSE IF resp.status = SETUP_NEEDED
       THEN [exc |-> "SetupNeeded", payload |-> <<resp.setup_url>>]
    ELSE IF resp.status # SUCCESS
       THEN [exc |-> "AssertionError", payload |-> <<>>]
    ELSE [exc |-> "none", payload |-> <<>>]

\* the if/elif chain and the assert of complete: the exception raised and
\* its arguments, "none" for a success
Outcome(resp) ==
    IF resp.status = FAILURE
       THEN [exc |-> "AuthenticationFailed",
             payload |-> <<resp.message, resp.identity_url>>]
    ELSE IF resp.status = CANCEL
       THEN [exc |-> "AuthenticationCancelled", payload |-> <<>>]
    ELSE IF resp.status = SETUP_NEEDED
       THEN [exc |-> "SetupNeeded", payload |-> <<resp.setup_url>>]
    ELSE IF resp.status # SUCCESS
       THEN [exc |-> "AssertionError", payload |-> <<>>]
    ELSE [exc |-> "none", payload |-> <<>>]

\* an identifier that is always the human-friendly identity URL
claimed_identifier_human(resp) == resp.identity_url

\* the identifier of a success: canonicalID if there is one
claimed_identifier(resp) ==
    IF resp.canonicalID # "" THEN resp.canonicalID ELSE resp.identity_url

\* for provider in self.openid_extension_providers:
\*     provider.parse_response(response, identifier)
\* raising: the providers whose parse_response raises
RECURSIVE parse_response(_, _, _)
parse_response(provs, raising, called) ==
    IF provs = <<>> THEN [exc |-> "none", calls |-> called]
    ELSE IF Head(provs) \in raising
       THEN [exc |-> "ProviderError", calls |-> Append(called, Head(provs))]
    ELSE parse_response(Tail(provs), raising, Append(called, Head(provs)))

ProviderSet == {Providers[i] : i \in 1..Len(Providers)}

\* a loop that catches what a provider raises and goes on
RunProviders_swallow(raising) == [exc |-> "none", calls |-> Providers]

\* the provider loop of complete, over the registered providers
RunProviders(raising) == parse_response(Providers, raising, <<>>)

\* complete after the engine call: clear the session, classify, run the
\* extension providers on a success
CompleteClassify(r) ==
    /\ pc[r] = "c_classify"
    /\ LET resp == call[r].response
           cl == ClearSession(resp.status, session[r], bag[r])
           o  == Outcome(resp)
       IN  /\ session' = [session EXCEPT ![r] = cl.slot]
           /\ bag' = [bag EXCEPT ![r] = cl.bag]
           /\ sres' = [sres EXCEPT ![r] =
                         IF resp.status # SETUP_NEEDED
                            THEN SOp("clear", cl.exc) ELSE @]
           /\ IF o.exc # "none"
                 THEN call' = [call EXCEPT ![r].exc = o.exc,
                                           ![r].payload = o.payload]
              ELSE \E raising \in SUBSET ProviderSet :
                     LET p == RunProviders(raising) IN
                     call' = [call EXCEPT
                                ![r].raising = raising,
                                ![r].provcalls = p.calls,
                                ![r].exc = p.exc,
                                ![r].result =
                                   IF p.exc = "none"
                                      THEN claimed_identifier(resp)
                                   ELSE "none"]
    /\ pc' = [pc EXCEPT ![r] = "logexit"]
    /\ UNCHANGED <<holder, cvars, database, oidutil_log, tm, conn, store,
                   save_log, acceptCount, nsetup>>

(***************************************************************************)
(* Requests: threads of the web server calling begin and complete.         *)
(***************************************************************************)
\* the session a request arrives with: empty, or holding a flow begun by an
\* earlier request of the same user
BegunSession ==
    save(Absent, DictSet(DictSet(EmptyDict, DISCO_KEY, ENDPOINT),
                         TOKEN_KEY, ENDPOINT))

InitSessions ==
    /\ session \in [Reqs -> {Absent, BegunSession}]
    /\ holder = [r \in Reqs |-> FALSE]
    /\ bag = [r \in Reqs |-> EmptyDict]
    /\ sres = [r \in Reqs |-> SOp("none", "none")]

InitCalls ==
    /\ oidutil_log = "default"
    /\ pc = [a \in Actors |-> "idle"]
    /\ call = [a \in Actors |-> NoCall]
    /\ tm = [a \in Actors |-> NoTm]
    /\ conn = [a \in Actors |-> NoConn]
    /\ store = [a \in Actors |-> NoStore]
    /\ save_log = [a \in Actors |-> "default"]
    /\ acceptCount = [n \in Nonces |-> 0]
    /\ nsetup = 0

InitConfig == dialect \in Dialects

\* an upgraded environment: what needs_upgrade/upgrade_environment leave
\* before Trac serves requests
Init ==
    /\ InitConfig
    /\ InitSessions
    /\ InitCalls
    /\ database = [version |-> 1, tables |-> store_class(dialect) # "none",
                   nonces |-> {}, assocs |-> {}]

Next ==
    \E r \in Reqs :
        \/ BeginStart(r)
        \/ BeginEngine(r)
        \/ BeginDeliver(r)
        \/ CompleteStart(r)
        \/ CompleteEngine(r)
        \/ CompleteClassify(r)
        \/ LogExit(r)
        \/ StoreExit(r)

Spec == Init /\ [][Next]_vars

TypeOK ==
    /\ \A r \in Reqs : bag[r] \in Dicts
    /\ \A a \in Actors : pc[a] \in {"idle", "b_engine", "b_deliver",
                                    "c_engine", "c_classify", "logexit",
                                    "storeexit", "nu_enter", "nu_body",
                                    "nu_exit", "up_enter", "up_body",
                                    "up_exit", "up_update", "up_caller"}

(***************************************************************************)
(* IEnvironmentSetupParticipant: environment_needs_upgrade(db) and         *)
(* upgrade_environment(db), run by the environment setup thread on the     *)
(* connection handle `db` of its caller.                                   *)
(***************************************************************************)
SetupIdle == pc[Admin] = "idle" /\ nsetup < MaxSetupCalls

\* self._get_schema_version(): None (NoVersion) when there is no row
get_schema_version(c, db) == ViewVersion(c, db)

\* table_exists(self.env, 'oid_associations')
table_exists(db) == db.tables

\* want = 1 if hasattr(store, 'createTables') else 0
WantedVersion(st) == IF hasattr_createTables(st) THEN 1 ELSE 0

\* needs_upgrade that reports a downgrade as "nothing to do"
NeedsUpgradeResult_silent(have, want) ==
    [exc |-> "none", result |-> IF have < want THEN "True" ELSE "False"]

\* the end of environment_needs_upgrade: raise on a downgrade, else
\* return have < want
NeedsUpgradeResult(have, want) ==
    IF have > want THEN [exc |-> "TracError", result |-> "none"]
    ELSE [exc |-> "none", result |-> IF have < want THEN "True" ELSE "False"]

\* the caller hands in db, a handle wrapped in w ConnectionWrapper layers,
\* with or without an uncommitted write of its own
CallerConn(w, dirty, db) ==
    IF dirty THEN ConnWrite(NewConn(w), db.version) ELSE NewConn(w)

\* environment_needs_upgrade: have = self._get_schema_version() and the
\* early return
NeedsUpgradeStart ==
    /\ SetupIdle
    /\ \E w \in 0..MaxWrap, dirty \in BOOLEAN :
        /\ dirty => database.version # NoVersion
        /\ LET c == CallerConn(w, dirty, database)
               have == get_schema_version(c, database)
           IN  /\ conn' = [conn EXCEPT ![Admin] = c]
               /\ call' = [call EXCEPT ![Admin] =
                     [NoCall EXCEPT !.op = "needs_upgrade", !.have = have,
                           !.follows_upgrade =
                               (call[Admin].op = "upgrade"
                                  /\ call[Admin].result = "upgraded"),
                           !.result = IF have = NoVersion THEN "True"
                                      ELSE "none"]]
               /\ pc' = [pc EXCEPT ![Admin] =
                           IF have = NoVersion THEN "idle" ELSE "nu_enter"]
    /\ nsetup' = nsetup + 1
    /\ tm' = [tm EXCEPT ![Admin] = NoTm]
    /\ store' = [store EXCEPT ![Admin] = NoStore]
    /\ UNCHANGED <<svars, cvars, database, oidutil_log, save_log,
                   acceptCount>>

\* with openid_store(self.env, db) as store: entering
SetupStoreEnter(here, body, failed) ==
    /\ pc[Admin] = here
    /\ \E ctorExc \in {"none", "StoreError"} :
        LET e == openid_store_enter(dialect, TRUE, conn[Admin], database,
                                    PoolWrap, ctorExc)
        IN  /\ tm' = [tm EXCEPT ![Admin] = e.tm]
            /\ conn' = [conn EXCEPT ![Admin] = e.conn]
            /\ store' = [store EXCEPT ![Admin] = e.store]
            /\ database' = e.db
            /\ call' = [call EXCEPT ![Admin].exc = e.exc]
            /\ pc' = [pc EXCEPT ![Admin] =
                        IF e.exc # "none" THEN failed ELSE body]
    /\ UNCHANGED <<svars, cvars, oidutil_log, save_log, acceptCount, nsetup>>

NeedsUpgradeEnter == SetupStoreEnter("nu_enter", "nu_body", "idle")

\* want = 1 if hasattr(store, 'createTables') else 0
NeedsUpgradeBody ==
    /\ pc[Admin] = "nu_body"
    /\ call' = [call EXCEPT ![Admin].want = WantedVersion(store[Admin])]
    /\ pc' = [pc EXCEPT ![Admin] = "nu_exit"]
    /\ UNCHANGED <<svars, cvars, database, oidutil_log, tm, conn, store,
                   save_log, acceptCount, nsetup>>

\* leaving the with block, then the comparison of have and want
NeedsUpgradeExit ==
    /\ pc[Admin] = "nu_exit"
    /\ LET x == openid_store_exit(tm[Admin], conn[Admin], database,
                                  call[Admin].exc)
           n == NeedsUpgradeResult(call[Admin].have, call[Admin].want)
       IN  /\ tm' = [tm EXCEPT ![Admin] = x.tm]
           /\ conn' = [conn EXCEPT ![Admin] = x.conn]
           /\ database' = x.db
           /\ call' = [call EXCEPT ![Admin].exc = n.exc,
                                   ![Admin].result = n.result]
    /\ store' = [store EXCEPT ![Admin] = NoStore]
    /\ pc' = [pc EXCEPT ![Admin] = "idle"]
    /\ UNCHANGED <<svars, cvars, oidutil_log, save_log, acceptCount, nsetup>>

\* an upgrade that creates the tables without looking for them
CreateNeeded_unchecked(version, exists) == version < 1

\* if version < 1: if not table_exists(self.env, 'oid_associations'):
CreateNeeded(version, exists) == version < 1 /\ ~exists

\* upgrade_environment up to the table check: read the version, create the
\* system row (and commit) when there is none, assert 0 <= version < 2.
\* call.have is orig, call.want the local `version`
UpgradeStart ==
    /\ SetupIdle
    /\ \E w \in 0..MaxWrap :
        LET c0 == NewConn(w)
            orig == get_schema_version(c0, database)
            ins == IF orig = NoVersion
                      THEN ConnCommit(ConnWrite(c0, 0), database)
                   ELSE [conn |-> c0, db |-> database]
            version == IF orig = NoVersion THEN 0 ELSE orig
            ok == 0 <= version /\ version < 2
        IN  /\ conn' = [conn EXCEPT ![Admin] = ins.conn]
            /\ database' = ins.db
            /\ call' = [call EXCEPT ![Admin] =
                  [NoCall EXCEPT !.op = "upgrade", !.have = orig,
                        !.want = IF ok /\ version < 1
                                      /\ table_exists(ins.db)
                                    THEN 1 ELSE version,
                        !.table_existed = ok /\ version < 1
                                          /\ table_exists(ins.db),
                        !.exc = IF ok THEN "none" ELSE "AssertionError"]]
            /\ pc' = [pc EXCEPT ![Admin] =
                        IF ~ok THEN "up_caller"
                        ELSE IF CreateNeeded(version, table_exists(ins.db))
                           THEN "up_enter"
                        ELSE "up_update"]
    /\ nsetup' = nsetup + 1
    /\ tm' = [tm EXCEPT ![Admin] = NoTm]
    /\ store' = [store EXCEPT ![Admin] = NoStore]
    /\ UNCHANGED <<svars, cvars, oidutil_log, save_log, acceptCount>>

UpgradeEnter == SetupStoreEnter("up_enter", "up_body", "up_caller")

\* if hasattr(store, 'createTables'): store.createTables()
UpgradeBody ==
    /\ pc[Admin] = "up_body"
    /\ IF hasattr_createTables(store[Admin])
          THEN \E dbError \in BOOLEAN :
               LET x == createTables(store[Admin], conn[Admin], database)
               IN  /\ conn' = [conn EXCEPT ![Admin] = x.conn]
                   /\ database' = IF dbError THEN database ELSE x.db
                   /\ call' = [call EXCEPT ![Admin].exc =
                                 IF dbError THEN "OperationalError"
                                 ELSE x.rv,
                                           ![Admin].created = @ + 1]
       ELSE UNCHANGED <<conn, database, call>>
    /\ pc' = [pc EXCEPT ![Admin] = "up_exit"]
    /\ UNCHANGED <<svars, cvars, oidutil_log, tm, store, save_log,
                   acceptCount, nsetup>>

\* leaving the with block; version = 1 when the body did not raise
UpgradeExit ==
    /\ pc[Admin] = "up_exit"
    /\ LET x == openid_store_exit(tm[Admin], conn[Admin], database,
                                  call[Admin].exc)
       IN  /\ tm' = [tm EXCEPT ![Admin] = x.tm]
           /\ conn' = [conn EXCEPT ![Admin] = x.conn]
           /\ database' = x.db
    /\ store' = [store EXCEPT ![Admin] = NoStore]
    /\ IF call[Admin].exc = "none"
          THEN /\ call' = [call EXCEPT ![Admin].want = 1]
               /\ pc' = [pc EXCEPT ![Admin] = "up_update"]
       ELSE /\ UNCHANGED call
            /\ pc' = [pc EXCEPT ![Admin] = "up_caller"]
    /\ UNCHANGED <<svars, cvars, oidutil_log, save_log, acceptCount, nsetup>>

\* db("UPDATE system SET value=%s WHERE name=%s", (str(version), key))
UpgradeUpdate ==
    /\ pc[Admin] = "up_update"
    /\ conn' = [conn EXCEPT ![Admin] = ConnWrite(@, call[Admin].want)]
    /\ call' = [call EXCEPT ![Admin].result = "upgraded"]
    /\ pc' = [pc EXCEPT ![Admin] = "up_caller"]
    /\ UNCHANGED <<svars, cvars, database, oidutil_log, tm, store, save_log,
                   acceptCount, nsetup>>

\* environment_created: `with self.env.db_transaction as db` ends, commit
\* when upgrade_environment returned and rollback when it raised
UpgradeCallerExit ==
    /\ pc[Admin] = "up_caller"
    /\ LET x == IF call[Admin].exc = "none"
                   THEN ConnCommit(conn[Admin], database)
                ELSE ConnRollback(conn[Admin], database)
       IN  /\ conn' = [conn EXCEPT ![Admin] = x.conn]
           /\ database' = x.db
    /\ pc' = [pc EXCEPT ![Admin] = "idle"]
    /\ UNCHANGED <<svars, cvars, oidutil_log, call, tm, store, save_log,
                   acceptCount, nsetup>>

\* the environment before setup: any recorded version, the oid tables
\* present or not; a supported dialect at version 1 or later has them
InitUpgrade ==
    /\ InitConfig
    /\ session = [r \in Reqs |-> Absent]
    /\ holder = [r \in Reqs |-> FALSE]
    /\ bag = [r \in Reqs |-> EmptyDict]
    /\ sres = [r \in Reqs |-> SOp("none", "none")]
    /\ InitCalls
    /\ \E v \in NoVersion..MaxVersion, t \in BOOLEAN :
        /\ (store_class(dialect) # "none" /\ v >= 1) => t
        /\ database = [version |-> v, tables |-> t, nonces |-> {},
                       assocs |-> {}]

NextUpgrade ==
    \/ NeedsUpgradeStart
    \/ NeedsUpgradeEnter
    \/ NeedsUpgradeBody
    \/ NeedsUpgradeExit
    \/ UpgradeStart
    \/ UpgradeEnter
    \/ UpgradeBody
    \/ UpgradeExit
    \/ UpgradeUpdate
    \/ UpgradeCallerExit

SpecUpgrade == InitUpgrade /\ [][NextUpgrade]_vars

(***************************************************************************)
(* PickleSession on its own: a holder built over any stored slot, then any *)
(* sequence of the wrapped dict methods.                                   *)
(***************************************************************************)
SessReq == "r1"

Sample == [k \in Keys |-> 1]

\* every proper prefix of a pickle: a payload cut short
Truncated == {SubSeq(pickle_dumps(Sample), 1, n) :
                 n \in 0..(Len(pickle_dumps(Sample)) - 1)}

SlotInputs ==
    {Absent, NonText, Text(<<1, 2, 3>>), Text(b64encode(<<1>>)),
     Text(b64encode(pickle_dumps_int(1)))}
      \cup {Text(b64encode(t)) : t \in Truncated}
      \cup {Text(b64encode(pickle_dumps(d))) : d \in Dicts}

InitSession ==
    /\ dialect = "sqlite"
    /\ InitCalls
    /\ database = [version |-> 1, tables |-> TRUE, nonces |-> {},
                   assocs |-> {}]
    /\ session \in [Reqs -> SlotInputs]
    /\ \A r \in Reqs \ {SessReq} : session[r] = Absent
    /\ holder = [r \in Reqs |-> FALSE]
    /\ bag = [r \in Reqs |-> EmptyDict]
    /\ sres = [r \in Reqs |-> SOp("none", "none")]

NextSession ==
    /\ \/ SessLoad(SessReq)
       \/ SessSetItem(SessReq)
       \/ SessDelItem(SessReq)
       \/ SessClear(SessReq)
       \/ SessPop(SessReq)
       \/ SessPopItem(SessReq)
       \/ SessSetDefault(SessReq)
       \/ SessUpdate(SessReq)
    /\ UNCHANGED <<cvars, fvars>>

SpecSession == InitSession /\ [][NextSession]_vars


MutatorOps == {"setitem", "delitem", "clear", "update", "pop", "popitem",
               "setdefault"}

(***************************************************************************)
(* Properties of PickleSession, under SpecSession.                         *)
(***************************************************************************)
\* C7: after every wrapped dict method that returns (set item, delete item,
\* clear, update, pop, popitem, setdefault), in any sequence, the session
\* slot is the base64 text of the pickle of the holder's full contents when
\* the bag is non-empty and is absent when the bag is empty, and a
\* PickleSession loaded from that slot has the same contents.
C7_MutationsPersisted ==
    \A r \in Reqs :
        (holder[r] /\ sres[r].op \in MutatorOps /\ sres[r].exc = "none") =>
            /\ bag[r] # EmptyDict =>
                  session[r] = Text(b64encode(pickle_dumps(bag[r])))
            /\ bag[r] = EmptyDict => session[r] = Absent
            /\ PickleSession(session[r]).exc = "none"
            /\ PickleSession(session[r]).bag = bag[r]

\* popitem has just left one item in the bag, which the slot holds
C7_Witness ==
    /\ holder[SessReq] /\ sres[SessReq].op = "popitem"
    /\ sres[SessReq].exc = "none"
    /\ Cardinality(DOMAIN bag[SessReq]) = 1
    /\ session[SessReq] # Absent

\* C8: constructing a PickleSession never raises: whatever the stored slot
\* holds (nothing, a non-text value, text that is not base64, a payload that
\* is not a valid or complete pickle), construction completes, and every
\* decode failure yields an empty bag.
C8_LoadNeverRaises ==
    \A r \in Reqs :
        sres[r].op = "init" =>
            /\ sres[r].exc = "none"
            /\ holder[r]
            /\ TryLoad(session[r]).exc # "none" => bag[r] = EmptyDict


(***************************************************************************)
(* Properties of begin and complete, under Spec.                           *)
(***************************************************************************)
Finished(r, op) == pc[r] = "idle" /\ call[r].op = op

\* the associations a new `with openid_store(self.env)` scope can read
ScopeAssociations ==
    LET e == openid_store_enter(dialect, FALSE, NoConn, database, PoolWrap,
                                "none")
    IN  {h \in Handles : getAssociation(e.store, e.conn, e.db, h).rv}

\* C1: whatever the dialect, a nonce (endpoint, timestamp, salt) is accepted
\* at most once over all complete calls: once a complete has had it accepted
\* by useNonce, no later complete gets it accepted again.
C1_NonceAcceptedOnce == \A n \in Nonces : acceptCount[n] <= 1

\* C2: an association that the engine stored during a begin call that ended
\* with the redirect or the form can be read with getAssociation by the
\* store scope of a following complete.
C2_AssociationKept ==
    \A r \in Reqs :
        (Finished(r, "begin") /\ call[r].delivered # <<>>
            /\ call[r].auth_request.stored) =>
                call[r].auth_request.handle \in ScopeAssociations

\* C3: two complete calls of concurrent requests that present the same nonce
\* never both hold a Success identifier.
C3_OneConcurrentSuccess ==
    \A r1, r2 \in Reqs :
        (r1 # r2 /\ call[r1].op = "complete" /\ call[r2].op = "complete"
            /\ pc[r1] # "idle" /\ pc[r2] # "idle"
            /\ call[r1].args.nonce = call[r2].args.nonce) =>
                ~(call[r1].result # "none" /\ call[r2].result # "none")

\* C4: with a supported dialect and no connection handed in, openid_store
\* opens one transaction, and that transaction is finished exactly once on
\* every exit path: committed when the body ends without raising, rolled
\* back when the body raises or the store constructor raises in __enter__;
\* it is open while the body runs, never open after the call and never
\* finished twice.
C4_TransactionFinishedOnce ==
    \A r \in Reqs :
        /\ tm[r].exits <= 1
        /\ (store_class(dialect) # "none" /\ pc[r] \notin {"idle"}) =>
              (tm[r].state = "open" /\ tm[r].exits = 0)
        /\ (store_class(dialect) # "none" /\ pc[r] = "idle"
               /\ call[r].op # "none" /\ holder[r]
               /\ call[r].exc # "AssertionError") =>
              /\ tm[r].exits = 1
              /\ call[r].exc = "none" => tm[r].state = "committed"
              /\ call[r].exc # "none" => tm[r].state = "rolledback"

\* the store constructor raised inside __enter__ and the transaction was
\* rolled back
C4_Witness ==
    \E r \in Reqs :
        /\ Finished(r, "complete") /\ call[r].exc = "StoreError"
        /\ tm[r] = [state |-> "rolledback", exits |-> 1]

\* the engine has returned its response to complete
HasResponse(r) ==
    call[r].op = "complete" /\ call[r].response.status # "none"

\* C6: in a complete call whose engine returned a response, the
\* PickleSession is empty and its session key removed once the status has
\* been looked at when the status is failure, cancel or success; when it is
\* setup-needed no step of the call after the response changes the bag or
\* the stored slot.
C6_SessionCleared ==
    /\ [](\A r \in Reqs :
            (HasResponse(r) /\ pc[r] # "c_classify"
                /\ call[r].response.status # SETUP_NEEDED) =>
                    (bag[r] = EmptyDict /\ session[r] = Absent))
    /\ [][\A r \in Reqs :
            (HasResponse(r) /\ call[r].response.status = SETUP_NEEDED) =>
                (bag'[r] = bag[r] /\ session'[r] = session[r])]_vars

\* a setup-needed complete has ended and the session still holds the flow
C6_Witness ==
    \E r \in Reqs :
        /\ Finished(r, "complete")
        /\ call[r].response.status = SETUP_NEEDED
        /\ call[r].exc = "SetupNeeded"
        /\ bag[r] # EmptyDict /\ session[r] # Absent

\* begin is past its delivery step
Delivered(r) ==
    call[r].op = "begin" /\ call[r].auth_request.endpoint # 0
        /\ pc[r] \in {"logexit", "storeexit", "idle"}

\* C9: a begin call in which discovery and association succeeded performs
\* exactly one delivery: the redirect when the auth request prefers it, else
\* the form body sent as text/html; what is delivered is built from the
\* resolved trust root, the given return URL and the given immediate flag.
C9_OneDelivery ==
    \A r \in Reqs :
        Delivered(r) =>
            /\ Len(call[r].delivered) = 1
            /\ LET d == call[r].delivered[1] IN
                /\ call[r].auth_request.redirect =>
                      (d.kind = "redirect" /\ d.content_type = "")
                /\ ~call[r].auth_request.redirect =>
                      (d.kind = "send" /\ d.content_type = "text/html")
                /\ d.body.realm =
                      (IF call[r].trust_root_arg # NoURL
                          THEN call[r].trust_root_arg
                       ELSE get_trust_root(call[r].abs_href,
                               call[r].absolute_trust_root).url)
                /\ d.body.return_to = ReturnTo
                /\ d.body.immediate = call[r].immediate

\* a redirect has been issued for a begin without a trust root, in
\* immediate mode
C9_Witness ==
    \E r \in Reqs :
        /\ Delivered(r) /\ call[r].auth_request.redirect
        /\ call[r].trust_root_arg = NoURL /\ call[r].immediate
        /\ call[r].delivered[1].kind = "redirect"

(***************************************************************************)
(* Properties of openid_store with a connection handed in and of the       *)
(* schema upgrade, under SpecUpgrade.                                      *)
(***************************************************************************)
\* C5: entered with an existing connection handle, openid_store neither
\* commits nor rolls back: entering and leaving the scope leave the handle
\* (its uncommitted write, its count of ended transactions) and the
\* committed data as they were and create no transaction manager, whether
\* the body returned or raised; a store built on a connection is built on
\* the innermost one, under every ConnectionWrapper layer.
C5_HandleUntouched ==
    [][(pc[Admin] \in {"nu_enter", "up_enter", "nu_exit", "up_exit"}
          /\ pc'[Admin] # pc[Admin]) =>
            /\ conn'[Admin] = conn[Admin]
            /\ database' = database
            /\ tm'[Admin] = NoTm
            /\ store'[Admin].kind = "sql" => store'[Admin].wrap = 0]_vars

\* the scope was entered on a wrapped handle and its body raised
C5_Witness ==
    /\ pc[Admin] = "up_exit" /\ call[Admin].exc = "OperationalError"
    /\ store[Admin].kind = "sql" /\ store[Admin].wrap = 0
    /\ conn[Admin].wrap = MaxWrap

\* a step of environment_needs_upgrade writes nothing
NeedsUpgradeReadsOnly ==
    /\ (pc[Admin] = "idle" /\ call'[Admin].op = "needs_upgrade") =>
           database' = database
    /\ pc[Admin] \in {"nu_enter", "nu_body", "nu_exit"} =>
           (database' = database /\ conn'[Admin] = conn[Admin])

\* C10: environment_needs_upgrade raises TracError whenever the recorded
\* schema version is greater than the version wanted for the selected store
\* (1 against 0 included), and no step of environment_needs_upgrade changes
\* the system table entry, the oid tables or their rows.
C10_DowngradeRefused ==
    /\ []((call[Admin].op = "needs_upgrade" /\ pc[Admin] = "idle"
              /\ call[Admin].want # NoVersion
              /\ call[Admin].have > call[Admin].want) =>
                 (call[Admin].exc = "TracError"
                    /\ call[Admin].result = "none"))
    /\ [][NeedsUpgradeReadsOnly]_vars

\* version 1 is recorded, the store wants 0, and the call has raised
C10_Witness ==
    /\ call[Admin].op = "needs_upgrade" /\ pc[Admin] = "idle"
    /\ call[Admin].have = 1 /\ call[Admin].want = 0
    /\ call[Admin].exc = "TracError" /\ database.version = 1

\* an upgrade_environment call that started with no schema version recorded
UnversionedUpgrade ==
    call[Admin].op = "upgrade" /\ call[Admin].have = NoVersion

\* C11: an upgrade started with no version recorded never calls createTables
\* when oid_associations was already there; when it was not there it calls
\* createTables at most once, and only on a store that has the method; an
\* upgrade that returns has written version 1 on the caller's handle, and
\* version 1 is what is recorded once the caller has committed.
C11_UnversionedUpgrade ==
    UnversionedUpgrade =>
        /\ call[Admin].table_existed => call[Admin].created = 0
        /\ call[Admin].created <= 1
        /\ call[Admin].created = 1 => dialect \in STORE_CLASSES
        /\ call[Admin].result = "upgraded" =>
              /\ pc[Admin] = "up_caller" =>
                    get_schema_version(conn[Admin], database) = 1
              /\ pc[Admin] = "idle" => database.version = 1

\* an upgrade from the unversioned state with the tables present has
\* returned and been committed without a createTables call
C11_Witness ==
    /\ UnversionedUpgrade
    /\ call[Admin].table_existed
    /\ pc[Admin] = "idle"
    /\ call[Admin].result = "upgraded"
    /\ call[Admin].created = 0
    /\ database.version = 1

(***************************************************************************)
(* Properties of the classification in complete, under Spec.               *)
(***************************************************************************)
\* a complete call that is past its classification of the response
Classified(r) ==
    HasResponse(r) /\ pc[r] \in {"logexit", "storeexit", "idle"}

\* what the three non-success statuses give: the exception with the
\* response's fields unchanged, and no identifier
ErrorOutcome(r) ==
    LET resp == call[r].response IN
    /\ resp.status = FAILURE =>
          /\ call[r].exc = "AuthenticationFailed"
          /\ call[r].payload = <<resp.message, resp.identity_url>>
    /\ resp.status = CANCEL =>
          /\ call[r].exc = "AuthenticationCancelled"
          /\ call[r].payload = <<>>
    /\ resp.status = SETUP_NEEDED =>
          /\ call[r].exc = "SetupNeeded"
          /\ call[r].payload = <<resp.setup_url>>
    /\ resp.status # SUCCESS => call[r].result = "none"

\* C12 as stated: every complete call whose engine returned a response ends
\* in the outcome its raw status names, and a success gives an identifier.
C12_StatusAloneDecides ==
    \A r \in Reqs :
        Classified(r) =>
            /\ call[r].response.status \in {FAILURE, CANCEL, SETUP_NEEDED,
                                             SUCCESS}
            /\ ErrorOutcome(r)
            /\ call[r].response.status = SUCCESS =>
                  /\ call[r].exc = "none"
                  /\ call[r].result = claimed_identifier(call[r].response)

\* C12, amended: every complete call whose engine returned a response ends
\* in the outcome its raw status names, with the response's fields
\* unchanged, except that a success gives an identifier only when no
\* extension provider raises: then the provider's error is the outcome and
\* no identifier is returned.  A status outside the four is an assertion
\* failure of the classifier, with no payload.
C12_OutcomeByStatus ==
    /\ \A r \in Reqs :
        Classified(r) =>
            /\ call[r].response.status \in {FAILURE, CANCEL, SETUP_NEEDED,
                                             SUCCESS}
            /\ ErrorOutcome(r)
            /\ call[r].response.status = SUCCESS =>
                  \/ /\ call[r].exc = "none"
                     /\ call[r].result = claimed_identifier(call[r].response)
                  \/ /\ call[r].exc = "ProviderError"
                     /\ call[r].result = "none"
    /\ Outcome([NoResponse EXCEPT !.status = "other"]) =
          [exc |-> "AssertionError", payload |-> <<>>]

\* two complete calls have ended, one cancelled and one failed
C12_Witness ==
    \E r, q \in Reqs :
        /\ Finished(r, "complete") /\ Finished(q, "complete")
        /\ call[r].response.status = CANCEL
        /\ call[r].exc = "AuthenticationCancelled"
        /\ call[q].response.status = FAILURE
        /\ call[q].exc = "AuthenticationFailed"

\* the registered providers up to and including the first one of `raising`
RECURSIVE UpToFirst(_, _)
UpToFirst(provs, raising) ==
    IF provs = <<>> THEN <<>>
    ELSE IF Head(provs) \in raising THEN <<Head(provs)>>
    ELSE <<Head(provs)>> \o UpToFirst(Tail(provs), raising)

\* C13: in a complete call with status success the providers'
\* parse_response are called once each in registration order; when one
\* raises, the providers after it are not called, the call ends with that
\* error and returns no identifier.  With status failure, cancel or
\* setup-needed no parse_response is called.
C13_ParseResponseOrder ==
    \A r \in Reqs :
        Classified(r) =>
            IF call[r].response.status = SUCCESS
               THEN /\ call[r].provcalls =
                          UpToFirst(Providers, call[r].raising)
                    /\ call[r].raising = {} =>
                          /\ call[r].provcalls = Providers
                          /\ call[r].exc = "none"
                    /\ call[r].raising # {} =>
                          /\ call[r].exc = "ProviderError"
                          /\ call[r].result = "none"
            ELSE call[r].provcalls = <<>>

\* a successful complete in which the first provider raised has ended
\* without calling the second
C13_Witness ==
    \E r \in Reqs :
        /\ Finished(r, "complete")
        /\ call[r].response.status = SUCCESS
        /\ call[r].raising = {Providers[1]}
        /\ call[r].provcalls = <<Providers[1]>>
        /\ call[r].exc = "ProviderError"

(***************************************************************************)
(* Properties of begin, under Spec.                                        *)
(***************************************************************************)
\* C14: in a begin whose engine returned an auth request, each registered
\* provider's add_to_auth_request has been called once, in registration
\* order, on that request (same association handle, the providers' work
\* recorded on it in order), and the redirect URL or form markup is built
\* from the request after all of them have worked on it.
C14_ProvidersBeforeDelivery ==
    \A r \in Reqs :
        Delivered(r) =>
            /\ call[r].provcalls = Providers
            /\ call[r].auth_request.exts = Providers
            /\ \A i \in 1..Len(call[r].delivered) :
                  /\ call[r].delivered[i].body.exts = Providers
                  /\ call[r].delivered[i].body.handle =
                        call[r].auth_request.handle

\* a begin has sent the form built from a request both providers extended
C14_Witness ==
    \E r \in Reqs :
        /\ Finished(r, "begin") /\ Delivered(r)
        /\ ~call[r].auth_request.redirect
        /\ call[r].delivered[1].kind = "send"
        /\ call[r].delivered[1].body.exts = Providers

\* C15: in a begin called without a trust root, the realm computed by
\* _get_trust_root has the scheme and host of the request's base URL; its
\* path is "/" when absolute_trust_root is on, whatever the path prefix of
\* the application, and the application's path prefix followed by "/" when
\* it is off; it ends in "/" either way.  For the base URL s://h/p with
\* the option on the realm is s://h/, and that realm is what is delivered.
C15_TrustRoot ==
    \A r \in Reqs :
        (call[r].op = "begin" /\ call[r].trust_root_arg = NoURL
            /\ call[r].exc # "AssertionError") =>
            LET t == urlparse(call[r].trust_root)
                b == urlparse(call[r].abs_href)
            IN  /\ t.scheme = b.scheme /\ t.netloc = b.netloc
                /\ call[r].absolute_trust_root => t.path = <<"/">>
                /\ ~call[r].absolute_trust_root =>
                      t.path = b.path \o <<"/">>
                /\ endswith(t.path, "/")
                /\ (call[r].absolute_trust_root
                      /\ call[r].abs_href = <<"s", ":", "/", "/", "h", "/", "p">>)
                      => call[r].trust_root = <<"s", ":", "/", "/", "h", "/">>
                /\ Delivered(r) =>
                      call[r].delivered[1].body.realm = call[r].trust_root

\* a begin for the application at s://h/p, option on and no trust root
\* given, has issued its redirect or form for the realm s://h/
C15_Witness ==
    \E r \in Reqs :
        /\ Finished(r, "begin") /\ Delivered(r)
        /\ call[r].trust_root_arg = NoURL
        /\ call[r].absolute_trust_root
        /\ call[r].abs_href = <<"s", ":", "/", "/", "h", "/", "p">>
        /\ call[r].delivered[1].body.realm = <<"s", ":", "/", "/", "h", "/">>

\* C16: the identifier returned by a successful complete is the response
\* endpoint's canonical ID whenever the response carries one, and the
\* response's identity URL only when it carries none.
C16_CanonicalFirst ==
    \A r \in Reqs :
        (Classified(r) /\ call[r].response.status = SUCCESS
            /\ call[r].exc = "none") =>
            LET resp == call[r].response IN
            /\ resp.canonicalID # "" => call[r].result = resp.canonicalID
            /\ resp.canonicalID = "" => call[r].result = resp.identity_url
            /\ (call[r].result = resp.identity_url
                  /\ resp.identity_url # resp.canonicalID)
                  => resp.canonicalID = ""

\* a complete has returned the canonical ID of a response that also
\* carries a different identity URL
C16_Witness ==
    \E r \in Reqs :
        /\ Finished(r, "complete") /\ call[r].exc = "none"
        /\ call[r].response.canonicalID = "canon"
        /\ call[r].response.identity_url = "id"
        /\ call[r].result = "canon"

\* a begin whose engine call raised
EngineFailed(r) ==
    call[r].op = "begin" /\ call[r].exc = "DiscoveryFailure"

\* C17: when the engine's begin raises (discovery or association failure),
\* that same error is what the call ends with; no extension provider has
\* been called, no auth request exists, nothing has been redirected or
\* sent, and the transaction that openid_store opened for the call (one is
\* opened for the SQL dialects) has been ended once, by a rollback.
C17_EngineFailurePropagates ==
    /\ [](\A r \in Reqs :
            EngineFailed(r) =>
                /\ call[r].provcalls = <<>>
                /\ call[r].delivered = <<>>
                /\ call[r].auth_request = NoAuthRequest
                /\ (pc[r] = "idle" /\ dialect \in STORE_CLASSES) =>
                      tm[r] = [state |-> "rolledback", exits |-> 1])
    /\ [][\A r \in Reqs :
            EngineFailed(r) => call'[r].exc = "DiscoveryFailure"]_vars

\* a begin has ended with the engine's DiscoveryFailure and its
\* transaction rolled back
C17_Witness ==
    \E r \in Reqs :
        /\ Finished(r, "begin") /\ EngineFailed(r)
        /\ tm[r] = [state |-> "rolledback", exits |-> 1]
        /\ call[r].delivered = <<>>

(***************************************************************************)
(* The upgrade as a fixed point, under SpecUpgrade.                        *)
(***************************************************************************)
\* C18: an environment_needs_upgrade that follows an upgrade_environment
\* which returned (and whose caller committed) does not raise TracError,
\* and when it returns it returns False, for every dialect.
C18_UpgradeFixedPoint ==
    (pc[Admin] = "idle" /\ call[Admin].op = "needs_upgrade"
        /\ call[Admin].follows_upgrade) =>
        /\ call[Admin].exc # "TracError"
        /\ call[Admin].exc = "none" => call[Admin].result = "False"

(***************************************************************************)
(* The python-openid log hook, under Spec.                                 *)
(***************************************************************************)
\* C19: when no begin or complete call is running, oidutil.log is the hook
\* that was installed before the first of the calls started.
C19_LogHookRestored ==
    (\A r \in Reqs : pc[r] = "idle") => oidutil_log = "default"

====
